---- MODULE Spec2Model ----
(***************************************************************************)
(* FastVGICPCuda (fast_gicp/gicp/impl/fast_vgicp_cuda_impl.hpp): the       *)
(* registration adapter that owns a FastVGICPCudaCore backend, feeds it    *)
(* the source and target clouds and forwards the solver's callbacks.       *)
(*                                                                         *)
(* A cloud handle is a number: NullCloud is the empty shared pointer and   *)
(* cloud c of Clouds holds CloudSize(c) points, so cloud 1 is empty.       *)
(* Backend data is modelled by its provenance: which cloud was uploaded,   *)
(* with which k and which search a neighbor set was produced, from which   *)
(* points and neighbor set covariances were computed, from which points,   *)
(* covariances and resolution the voxel map was built.                     *)
(***************************************************************************)
EXTENDS Integers, Sequences, FiniteSets, TLC

\* ---------------------------------------------------------------- bounds
MaxCloud == 3
MaxK == 2
MaxRes == 2
MaxT == 1
MaxIter == 2
MaxPts == 3
MaxCoord == 2

NullCloud == 0
Clouds == 1..MaxCloud
Handles == {NullCloud} \cup Clouds
CloudSize(c) == c - 1
Ks == 1..MaxK
Resolutions == 1..MaxRes
Transforms == 0..MaxT
Methods == {"CPU_PARALLEL_KDTREE", "GPU_BRUTEFORCE"}
Iterations == 1..MaxIter
Epsilons == {2, 5}

VARIABLES
  input_,                   \* pcl::Registration::input_ (source handle)
  target_,                  \* pcl::Registration::target_ (target handle)
  neighbor_search_method_,
  k_correspondences_,
  regularization_method_,
  voxel_resolution_,
  max_iterations_,
  rotation_epsilon_,
  transformation_epsilon_,
  vgicp_cuda,               \* the FastVGICPCudaCore the adapter owns
  solver,                   \* position of the outer solver inside computeTransformation
  op,                       \* the last operation: name, argument, outcome
  calls,                    \* the steps the last operation ran, in order
  swaps,                    \* history: the state before a run of consecutive swaps
  accel,                    \* the accelerator: reliable, flaky or failed
  kd                        \* one call of find_neighbors_parallel_kdtree, its loop unrolled

adapter == <<input_, target_, neighbor_search_method_, k_correspondences_,
             regularization_method_, voxel_resolution_, max_iterations_,
             rotation_epsilon_, transformation_epsilon_>>
vars == <<input_, target_, neighbor_search_method_, k_correspondences_,
          regularization_method_, voxel_resolution_, max_iterations_,
          rotation_epsilon_, transformation_epsilon_, vgicp_cuda, solver, op,
          calls, swaps, accel, kd>>

\* ------------------------------------------------------- backend (core)
NoNeighbors == [cloud |-> NullCloud, k |-> 0, method |-> "NONE"]
NoCovs == [cloud |-> NullCloud, neighbors |-> NoNeighbors, method |-> "NONE"]
NoSide == [points |-> NullCloud, neighbors |-> NoNeighbors, covs |-> NoCovs]
NoVoxelMap == [cloud |-> NullCloud, covs |-> NoCovs, resolution |-> 0]
NoTransform == -1

\* GaussianVoxelMap built from a side's points and covariances.
BuildVoxelMap(side, res) ==
  IF side.points = NullCloud \/ side.covs = NoCovs
    THEN NoVoxelMap
    ELSE [cloud |-> side.points, covs |-> side.covs, resolution |-> res]

\* One step of a handler: a backend call, or the host search. arg is the
\* number passed (a cloud, k, a value, a transform), neighbors the neighbor
\* vector handed over, method the regularization method passed.
Step(fn, arg) ==
  [fn |-> fn, arg |-> arg, neighbors |-> NoNeighbors, method |-> "NONE"]
StepNeighbors(fn, k, neighbors) ==
  [fn |-> fn, arg |-> k, neighbors |-> neighbors, method |-> "NONE"]
StepMethod(fn, method) ==
  [fn |-> fn, arg |-> 0, neighbors |-> NoNeighbors, method |-> method]

HostFns == {"find_neighbors_parallel_kdtree"}
UploadFns == {"set_source_cloud", "set_target_cloud"}
SearchFns == {"find_neighbors_parallel_kdtree", "find_source_neighbors",
              "find_target_neighbors"}
NeighborFns == {"set_source_neighbors", "set_target_neighbors",
                "find_source_neighbors", "find_target_neighbors"}
CovFns == {"calculate_source_covariances", "calculate_target_covariances"}
VoxelFns == {"create_target_voxelmap"}
SourceFns == {"set_source_cloud", "set_source_neighbors", "find_source_neighbors",
              "calculate_source_covariances", "get_source_covariances"}
TargetFns == {"set_target_cloud", "set_target_neighbors", "find_target_neighbors",
              "calculate_target_covariances", "create_target_voxelmap"}

\* A backend call the backend itself refuses: a brute-force search for k
\* neighbors in a cloud of fewer than k points.
Rejects(core, s) ==
  \/ s.fn = "find_source_neighbors" /\ CloudSize(core.src.points) < s.arg
  \/ s.fn = "find_target_neighbors" /\ CloudSize(core.tgt.points) < s.arg

\* The backend after one call that returned. The host kd-tree search is a
\* step of the adapter and leaves the backend alone.
Apply(core, s) ==
  CASE s.fn = "set_source_cloud" ->
         [core EXCEPT !.src.points = s.arg]
    [] s.fn = "set_target_cloud" ->
         [core EXCEPT !.tgt.points = s.arg]
    [] s.fn = "set_source_neighbors" ->
         [core EXCEPT !.src.neighbors = s.neighbors]
    [] s.fn = "set_target_neighbors" ->
         [core EXCEPT !.tgt.neighbors = s.neighbors]
    [] s.fn = "find_source_neighbors" ->
         [core EXCEPT !.src.neighbors =
            [cloud |-> core.src.points, k |-> s.arg, method |-> "GPU_BRUTEFORCE"]]
    [] s.fn = "find_target_neighbors" ->
         [core EXCEPT !.tgt.neighbors =
            [cloud |-> core.tgt.points, k |-> s.arg, method |-> "GPU_BRUTEFORCE"]]
    [] s.fn = "calculate_source_covariances" ->
         [core EXCEPT !.src.covs =
            [cloud |-> core.src.points, neighbors |-> core.src.neighbors,
             method |-> s.method]]
    [] s.fn = "calculate_target_covariances" ->
         [core EXCEPT !.tgt.covs =
            [cloud |-> core.tgt.points, neighbors |-> core.tgt.neighbors,
             method |-> s.method]]
    [] s.fn = "create_target_voxelmap" ->
         [core EXCEPT !.voxelmap = BuildVoxelMap(core.tgt, core.resolution)]
    [] s.fn = "swap_source_and_target" ->
         [core EXCEPT !.src = core.tgt, !.tgt = core.src,
                      !.voxelmap = BuildVoxelMap(core.src, core.resolution)]
    [] s.fn = "set_max_iterations" -> [core EXCEPT !.max_iterations = s.arg]
    [] s.fn = "set_rotation_epsilon" -> [core EXCEPT !.rotation_epsilon = s.arg]
    [] s.fn = "set_transformation_epsilon" ->
         [core EXCEPT !.transformation_epsilon = s.arg]
    [] s.fn = "set_resolution" -> [core EXCEPT !.resolution = s.arg]
    [] s.fn = "update_correspondences" -> [core EXCEPT !.correspondences = s.arg]
    [] s.fn = "update_mahalanobis" -> [core EXCEPT !.mahalanobis = s.arg]
    [] OTHER -> core

InitCore(maxit, roteps, transeps, res) ==
  [src |-> NoSide, tgt |-> NoSide, voxelmap |-> NoVoxelMap,
   max_iterations |-> maxit, rotation_epsilon |-> roteps,
   transformation_epsilon |-> transeps, resolution |-> res,
   correspondences |-> NoTransform, mahalanobis |-> NoTransform]

\* ------------------------------------------------------------- adapter
\* A handler that swallowed what a backend call throws and went on with its
\* next statement.
RECURSIVE RunCatching(_, _, _, _)
RunCatching(core, steps, i, f) ==
  IF i > Len(steps)
    THEN [core |-> core, n |-> Len(steps), outcome |-> "ok", injected |-> f > 0]
    ELSE IF Rejects(core, steps[i]) \/ i = f
      THEN RunCatching(core, steps, i + 1, f)
      ELSE RunCatching(Apply(core, steps[i]), steps, i + 1, f)

\* The statements of a handler run in order and nothing catches what a
\* backend call throws: the handler ends at the first call that fails (the
\* call the backend refuses, or call number f when f > 0, an accelerator
\* failure). n counts the steps entered, the failing one included.
RECURSIVE Run(_, _, _, _)
Run(core, steps, i, f) ==
  IF i > Len(steps)
    THEN [core |-> core, n |-> Len(steps), outcome |-> "ok", injected |-> FALSE]
    ELSE IF Rejects(core, steps[i])
      THEN [core |-> core, n |-> i, outcome |-> "error", injected |-> FALSE]
      ELSE IF i = f
        THEN [core |-> core, n |-> i, outcome |-> "error", injected |-> TRUE]
        ELSE Run(Apply(core, steps[i]), steps, i + 1, f)

\* Where an accelerator failure may strike: 0 is nowhere.
FaultPoints(steps) ==
  {0} \cup (IF accel = "flaky"
              THEN {i \in 1..Len(steps) : steps[i].fn \notin HostFns}
              ELSE {})

\* find_neighbors_parallel_kdtree: the neighbor vector of the cloud for k.
find_neighbors_parallel_kdtree(k, cloud) ==
  [cloud |-> cloud, k |-> k, method |-> "CPU_PARALLEL_KDTREE"]

\* The identity checks at the head of setInputSource and setInputTarget.
SameSourceWrongHandle(cloud) == cloud = target_
SameSource(cloud) == cloud = input_
SameTarget(cloud) == cloud = target_

SetInputSourceStepsAlwaysKdTree(cloud) ==
  <<Step("set_source_cloud", cloud),
    Step("find_neighbors_parallel_kdtree", k_correspondences_),
    StepNeighbors("set_source_neighbors", k_correspondences_,
                  find_neighbors_parallel_kdtree(k_correspondences_, cloud)),
    StepMethod("calculate_source_covariances", regularization_method_),
    Step("get_source_covariances", 0)>>

SetInputSourceSteps(cloud) ==
  <<Step("set_source_cloud", cloud)>>
  \o (IF neighbor_search_method_ = "CPU_PARALLEL_KDTREE"
        THEN <<Step("find_neighbors_parallel_kdtree", k_correspondences_),
               StepNeighbors("set_source_neighbors", k_correspondences_,
                    find_neighbors_parallel_kdtree(k_correspondences_, cloud))>>
        ELSE <<Step("find_source_neighbors", k_correspondences_)>>)
  \o <<StepMethod("calculate_source_covariances", regularization_method_),
       Step("get_source_covariances", 0)>>

SetInputTargetStepsVoxelFirst(cloud) ==
  <<Step("set_target_cloud", cloud), Step("create_target_voxelmap", 0)>>
  \o (IF neighbor_search_method_ = "CPU_PARALLEL_KDTREE"
        THEN <<Step("find_neighbors_parallel_kdtree", k_correspondences_),
               StepNeighbors("set_target_neighbors", k_correspondences_,
                    find_neighbors_parallel_kdtree(k_correspondences_, cloud))>>
        ELSE <<Step("find_target_neighbors", k_correspondences_)>>)
  \o <<StepMethod("calculate_target_covariances", regularization_method_)>>

SetInputTargetStepsCopyPaste(cloud) ==
  <<Step("set_source_cloud", cloud)>>
  \o (IF neighbor_search_method_ = "CPU_PARALLEL_KDTREE"
        THEN <<Step("find_neighbors_parallel_kdtree", k_correspondences_),
               StepNeighbors("set_target_neighbors", k_correspondences_,
                    find_neighbors_parallel_kdtree(k_correspondences_, cloud))>>
        ELSE <<Step("find_target_neighbors", k_correspondences_)>>)
  \o <<StepMethod("calculate_target_covariances", regularization_method_),
       Step("create_target_voxelmap", 0)>>

SetInputTargetSteps(cloud) ==
  <<Step("set_target_cloud", cloud)>>
  \o (IF neighbor_search_method_ = "CPU_PARALLEL_KDTREE"
        THEN <<Step("find_neighbors_parallel_kdtree", k_correspondences_),
               StepNeighbors("set_target_neighbors", k_correspondences_,
                    find_neighbors_parallel_kdtree(k_correspondences_, cloud))>>
        ELSE <<Step("find_target_neighbors", k_correspondences_)>>)
  \o <<StepMethod("calculate_target_covariances", regularization_method_),
       Step("create_target_voxelmap", 0)>>

ComputeTransformationStepsNoResolution ==
  <<Step("set_max_iterations", max_iterations_),
    Step("set_rotation_epsilon", rotation_epsilon_),
    Step("set_transformation_epsilon", transformation_epsilon_)>>

ComputeTransformationSteps ==
  <<Step("set_max_iterations", max_iterations_),
    Step("set_rotation_epsilon", rotation_epsilon_),
    Step("set_transformation_epsilon", transformation_epsilon_),
    Step("set_resolution", voxel_resolution_)>>

SwapStepsNoBackend == <<>>
SwapSteps == <<Step("swap_source_and_target", 0)>>
UpdateCorrespondencesSteps(trans) == <<Step("update_correspondences", trans)>>
UpdateMahalanobisSteps(trans) == <<Step("update_mahalanobis", trans)>>
ComputeErrorStepsRematches(trans) ==
  <<Step("update_correspondences", trans), Step("compute_error", trans)>>
ComputeErrorSteps(trans) == <<Step("compute_error", trans)>>

\* ------------------------------ find_neighbors_parallel_kdtree, unrolled
\* A cloud's points are coordinates on a line; point i of a cloud is
\* points[i + 1]. One call is followed statement by statement: iteration i
\* of the parallel loop searches, then copies what the search returned into
\* the shared vector, element by element; the iterations interleave freely.
Coords == 0..MaxCoord
PointSeqs == UNION {[1..n -> Coords] : n \in 0..MaxPts}

Dist(points, a, b) ==
  LET d == points[a + 1] - points[b + 1] IN IF d < 0 THEN -d ELSE d

\* pcl::search::KdTree::nearestKSearch(cloud->at(q), k, k_indices, ...): the
\* k nearest points of the cloud, nearest first, all of them when the cloud
\* has fewer than k.
RECURSIVE nearestKSearch(_, _, _, _)
nearestKSearch(points, q, k, found) ==
  IF Len(found) = k \/ Len(found) = Len(points)
    THEN found
    ELSE LET rest == (0..(Len(points) - 1)) \ {found[x] : x \in 1..Len(found)}
             best == CHOOSE j \in rest :
                       \A l \in rest :
                         \/ Dist(points, q, j) < Dist(points, q, l)
                         \/ Dist(points, q, j) = Dist(points, q, l) /\ j <= l
         IN nearestKSearch(points, q, k, Append(found, best))

\* std::vector<int> neighbors(cloud->size() * k)
NeighborsSizeNoK(n, k) == n
NeighborsSize(n, k) == n * k

\* neighbors.begin() + i * k
CopyDestStrideOne(i, k) == i
CopyDest(i, k) == i * k

KdIdle ==
  [pc |-> "idle", points |-> <<>>, k |-> 0, neighbors |-> <<>>, its |-> <<>>,
   writes |-> {}]

\* kdtree.setInputCloud(cloud), the vector value-initialised, the loop entered.
KdStart(points, k) ==
  [pc |-> "loop", points |-> points, k |-> k,
   neighbors |-> [x \in 1..NeighborsSize(Len(points), k) |-> 0],
   its |-> [i \in 1..Len(points) |-> [pc |-> "search", k_indices |-> <<>>, j |-> 0]],
   writes |-> {}]

KdFrame == UNCHANGED <<adapter, vgicp_cuda, solver, op, calls, swaps, accel>>

\* Iteration i: kdtree.nearestKSearch into its own k_indices.
KdTreeSearch(i) ==
  /\ kd.pc = "loop"
  /\ i < Len(kd.points)
  /\ kd.its[i + 1].pc = "search"
  /\ kd' = [kd EXCEPT !.its[i + 1] =
              [pc |-> "copy",
               k_indices |-> nearestKSearch(kd.points, i, kd.k, <<>>),
               j |-> 0]]
  /\ KdFrame

\* Iteration i: std::copy writes the next element of k_indices.
KdTreeCopy(i) ==
  /\ kd.pc = "loop"
  /\ i < Len(kd.points)
  /\ kd.its[i + 1].pc = "copy"
  /\ LET it == kd.its[i + 1]
         pos == CopyDest(i, kd.k) + it.j
     IN kd' = [kd EXCEPT
                 !.neighbors = [x \in 1..Len(kd.neighbors) |->
                                  IF x = pos + 1 THEN it.k_indices[it.j + 1]
                                  ELSE kd.neighbors[x]],
                 !.writes = @ \cup {[i |-> i, p |-> pos]},
                 !.its[i + 1].j = it.j + 1,
                 !.its[i + 1].pc = IF it.j + 1 = Len(it.k_indices)
                                     THEN "done" ELSE "copy"]
  /\ KdFrame

\* The loop's barrier, then return neighbors.
KdTreeReturn ==
  /\ kd.pc = "loop"
  /\ \A x \in 1..Len(kd.its) : kd.its[x].pc = "done"
  /\ kd' = [kd EXCEPT !.pc = "returned"]
  /\ KdFrame

Idle == [pc |-> "idle", T |-> NoTransform, iter |-> 0]
NoSwaps == [n |-> 0, input_ |-> NullCloud, target_ |-> NullCloud,
            core |-> InitCore(0, 0, 0, 0)]
\* A crashed process runs nothing more, and an accelerator failure is fatal
\* for the run: the session ends with the operation that failed.
Alive == op.outcome # "crash" /\ accel # "failed"
CanCall == Alive /\ solver.pc = "idle"

Op(name, arg, outcome) ==
  [name |-> name, arg |-> arg, method |-> "NONE", outcome |-> outcome]

Done(name, arg, r, steps) ==
  /\ op' = Op(name, arg, r.outcome)
  /\ calls' = SubSeq(steps, 1, r.n)
  /\ vgicp_cuda' = r.core
  /\ accel' = IF r.injected THEN "failed" ELSE accel

InitAdapter(accelerator) ==
  /\ input_ = NullCloud
  /\ target_ = NullCloud
  /\ neighbor_search_method_ = "CPU_PARALLEL_KDTREE"
  /\ k_correspondences_ = 1
  /\ regularization_method_ = "PLANE"
  /\ voxel_resolution_ = 1
  /\ max_iterations_ = MaxIter
  /\ rotation_epsilon_ = 2
  /\ transformation_epsilon_ = 5
  /\ vgicp_cuda = InitCore(max_iterations_, rotation_epsilon_,
                           transformation_epsilon_, voxel_resolution_)
  /\ solver = Idle
  /\ op = Op("FastVGICPCuda", 0, "ok")
  /\ calls = <<>>
  /\ swaps = NoSwaps
  /\ accel = accelerator

InitWith(accelerator) == InitAdapter(accelerator) /\ kd = KdIdle

setNearesetNeighborSearchMethod(method) ==
  /\ CanCall
  /\ UNCHANGED kd
  /\ neighbor_search_method_' = method
  /\ op' = [Op("setNearesetNeighborSearchMethod", 0, "ok")
              EXCEPT !.method = method]
  /\ calls' = <<>>
  /\ swaps' = NoSwaps
  /\ UNCHANGED <<input_, target_, k_correspondences_, regularization_method_,
                 voxel_resolution_, max_iterations_, rotation_epsilon_,
                 transformation_epsilon_, vgicp_cuda, solver, accel>>

setCorrespondenceRandomness(k) ==
  /\ CanCall
  /\ UNCHANGED kd
  /\ k_correspondences_' = k
  /\ op' = Op("setCorrespondenceRandomness", k, "ok")
  /\ calls' = <<>>
  /\ swaps' = NoSwaps
  /\ UNCHANGED <<input_, target_, neighbor_search_method_, regularization_method_,
                 voxel_resolution_, max_iterations_, rotation_epsilon_,
                 transformation_epsilon_, vgicp_cuda, solver, accel>>

setResolution(res) ==
  /\ CanCall
  /\ UNCHANGED kd
  /\ voxel_resolution_' = res
  /\ op' = Op("setResolution", res, "ok")
  /\ calls' = <<>>
  /\ swaps' = NoSwaps
  /\ UNCHANGED <<input_, target_, neighbor_search_method_, k_correspondences_,
                 regularization_method_, max_iterations_, rotation_epsilon_,
                 transformation_epsilon_, vgicp_cuda, solver, accel>>

setMaximumIterations(n) ==
  /\ CanCall
  /\ UNCHANGED kd
  /\ max_iterations_' = n
  /\ op' = Op("setMaximumIterations", n, "ok")
  /\ calls' = <<>>
  /\ swaps' = NoSwaps
  /\ UNCHANGED <<input_, target_, neighbor_search_method_, k_correspondences_,
                 regularization_method_, voxel_resolution_, rotation_epsilon_,
                 transformation_epsilon_, vgicp_cuda, solver, accel>>

setRotationEpsilon(eps) ==
  /\ CanCall
  /\ UNCHANGED kd
  /\ rotation_epsilon_' = eps
  /\ op' = Op("setRotationEpsilon", eps, "ok")
  /\ calls' = <<>>
  /\ swaps' = NoSwaps
  /\ UNCHANGED <<input_, target_, neighbor_search_method_, k_correspondences_,
                 regularization_method_, voxel_resolution_, max_iterations_,
                 transformation_epsilon_, vgicp_cuda, solver, accel>>

setTransformationEpsilon(eps) ==
  /\ CanCall
  /\ UNCHANGED kd
  /\ transformation_epsilon_' = eps
  /\ op' = Op("setTransformationEpsilon", eps, "ok")
  /\ calls' = <<>>
  /\ swaps' = NoSwaps
  /\ UNCHANGED <<input_, target_, neighbor_search_method_, k_correspondences_,
                 regularization_method_, voxel_resolution_, max_iterations_,
                 rotation_epsilon_, vgicp_cuda, solver, accel>>

\* A swap that returned extends the run of consecutive swaps; the state
\* before the first swap of the run is kept.
SwapHistory(outcome) ==
  IF outcome # "ok" THEN NoSwaps
  ELSE IF swaps.n = 1 THEN [swaps EXCEPT !.n = 2]
  ELSE [n |-> 1, input_ |-> input_, target_ |-> target_, core |-> vgicp_cuda]

\* The handles after the lines that follow the backend swap.
SwapHandlesAssigns(outcome) ==
  IF outcome = "ok" THEN <<target_, target_>> ELSE <<input_, target_>>
SwapHandles(outcome) ==
  IF outcome = "ok" THEN <<target_, input_>> ELSE <<input_, target_>>

swapSourceAndTarget ==
  /\ CanCall
  /\ UNCHANGED kd
  /\ \E f \in FaultPoints(SwapSteps) :
       LET r == Run(vgicp_cuda, SwapSteps, 1, f) IN
         /\ Done("swapSourceAndTarget", 0, r, SwapSteps)
         /\ input_' = SwapHandles(r.outcome)[1]
         /\ target_' = SwapHandles(r.outcome)[2]
         /\ swaps' = SwapHistory(r.outcome)
  /\ UNCHANGED <<neighbor_search_method_, k_correspondences_,
                 regularization_method_, voxel_resolution_, max_iterations_,
                 rotation_epsilon_, transformation_epsilon_, solver>>

\* The operations record the handle they were given; a clear records the
\* handle it dropped.
clearSourceNoReset ==
  /\ CanCall
  /\ UNCHANGED kd
  /\ op' = Op("clearSource", input_, "ok")
  /\ calls' = <<>>
  /\ swaps' = NoSwaps
  /\ UNCHANGED <<input_, target_, neighbor_search_method_, k_correspondences_,
                 regularization_method_, voxel_resolution_, max_iterations_,
                 rotation_epsilon_, transformation_epsilon_, vgicp_cuda, solver,
                 accel>>

clearSource ==
  /\ CanCall
  /\ UNCHANGED kd
  /\ input_' = NullCloud
  /\ op' = Op("clearSource", input_, "ok")
  /\ calls' = <<>>
  /\ swaps' = NoSwaps
  /\ UNCHANGED <<target_, neighbor_search_method_, k_correspondences_,
                 regularization_method_, voxel_resolution_, max_iterations_,
                 rotation_epsilon_, transformation_epsilon_, vgicp_cuda, solver,
                 accel>>

clearTarget ==
  /\ CanCall
  /\ UNCHANGED kd
  /\ target_' = NullCloud
  /\ op' = Op("clearTarget", target_, "ok")
  /\ calls' = <<>>
  /\ swaps' = NoSwaps
  /\ UNCHANGED <<input_, neighbor_search_method_, k_correspondences_,
                 regularization_method_, voxel_resolution_, max_iterations_,
                 rotation_epsilon_, transformation_epsilon_, vgicp_cuda, solver,
                 accel>>

\* pcl::Registration::setInputSource stores the handle; a PCL that checks
\* for an empty cloud first (checks) reports it and stores nothing.
BaseSetInputSource(cloud, checks) ==
  IF checks /\ CloudSize(cloud) = 0 THEN input_ ELSE cloud

\* pcl::Registration::setInputTarget reports an empty cloud and stores
\* nothing; otherwise it stores the handle.
BaseSetInputTarget(cloud) ==
  IF CloudSize(cloud) = 0 THEN target_ ELSE cloud

setInputSource(cloud) ==
  /\ CanCall
  /\ UNCHANGED kd
  /\ swaps' = NoSwaps
  /\ UNCHANGED <<target_, neighbor_search_method_, k_correspondences_,
                 regularization_method_, voxel_resolution_, max_iterations_,
                 rotation_epsilon_, transformation_epsilon_, solver>>
  /\ IF SameSource(cloud)
       THEN \* the input cloud is the same as the previous one
         /\ op' = Op("setInputSource", cloud, "ok")
         /\ calls' = <<>>
         /\ UNCHANGED <<input_, vgicp_cuda, accel>>
     ELSE IF cloud = NullCloud
       THEN \* cloud->size() through an empty pointer: the process dies,
            \* after the base class stored the handle or before
         /\ op' = Op("setInputSource", cloud, "crash")
         /\ calls' = <<>>
         /\ input_' \in {input_, NullCloud}
         /\ UNCHANGED <<vgicp_cuda, accel>>
     ELSE
         /\ \E checks \in BOOLEAN : input_' = BaseSetInputSource(cloud, checks)
         /\ \E f \in FaultPoints(SetInputSourceSteps(cloud)) :
              Done("setInputSource", cloud,
                   Run(vgicp_cuda, SetInputSourceSteps(cloud), 1, f),
                   SetInputSourceSteps(cloud))

setInputTarget(cloud) ==
  /\ CanCall
  /\ UNCHANGED kd
  /\ swaps' = NoSwaps
  /\ UNCHANGED <<input_, neighbor_search_method_, k_correspondences_,
                 regularization_method_, voxel_resolution_, max_iterations_,
                 rotation_epsilon_, transformation_epsilon_, solver>>
  /\ IF SameTarget(cloud)
       THEN \* the input cloud is the same as the previous one
         /\ op' = Op("setInputTarget", cloud, "ok")
         /\ calls' = <<>>
         /\ UNCHANGED <<target_, vgicp_cuda, accel>>
     ELSE IF cloud = NullCloud
       THEN \* cloud->points through an empty pointer: the process dies
         /\ op' = Op("setInputTarget", cloud, "crash")
         /\ calls' = <<>>
         /\ UNCHANGED <<target_, vgicp_cuda, accel>>
     ELSE
         /\ target_' = BaseSetInputTarget(cloud)
         /\ \E f \in FaultPoints(SetInputTargetSteps(cloud)) :
              Done("setInputTarget", cloud,
                   Run(vgicp_cuda, SetInputTargetSteps(cloud), 1, f),
                   SetInputTargetSteps(cloud))

\* ------------------------------------------------ computeTransformation
\* FastGICP::computeTransformation, the outer solver: per iteration it calls
\* update_correspondences, update_mahalanobis and compute_error with the
\* current transform, then steps the transform or stops.
SolverAt(pc, trans, iter) == [pc |-> pc, T |-> trans, iter |-> iter]

computeTransformation(guess) ==
  /\ CanCall
  /\ UNCHANGED kd
  /\ swaps' = NoSwaps
  /\ \E f \in FaultPoints(ComputeTransformationSteps) :
       LET r == Run(vgicp_cuda, ComputeTransformationSteps, 1, f) IN
         /\ Done("computeTransformation", guess, r, ComputeTransformationSteps)
         /\ solver' = IF r.outcome = "ok"
                        THEN SolverAt("update_correspondences", guess, 0)
                        ELSE Idle
  /\ UNCHANGED adapter

Callback(name, steps, next) ==
  /\ Alive
  /\ UNCHANGED kd
  /\ solver.pc = name
  /\ swaps' = NoSwaps
  /\ \E f \in FaultPoints(steps) :
       LET r == Run(vgicp_cuda, steps, 1, f) IN
         /\ Done(name, solver.T, r, steps)
         /\ solver' = IF r.outcome = "ok" THEN [solver EXCEPT !.pc = next] ELSE Idle
  /\ UNCHANGED adapter

update_correspondences ==
  Callback("update_correspondences", UpdateCorrespondencesSteps(solver.T),
           "update_mahalanobis")

update_mahalanobis ==
  Callback("update_mahalanobis", UpdateMahalanobisSteps(solver.T), "compute_error")

compute_error ==
  Callback("compute_error", ComputeErrorSteps(solver.T), "solve")

\* The solver consumes the linearization: it stops (converged, or out of
\* iterations) or goes on with an updated transform.
SolverStep ==
  /\ Alive
  /\ UNCHANGED kd
  /\ solver.pc = "solve"
  /\ \/ solver' = Idle
     \/ /\ solver.iter + 1 < vgicp_cuda.max_iterations
        /\ \E t \in Transforms :
             solver' = SolverAt("update_correspondences", t, solver.iter + 1)
  /\ op' = Op("solve", solver.T, "ok")
  /\ calls' = <<>>
  /\ swaps' = NoSwaps
  /\ UNCHANGED <<vgicp_cuda, accel>>
  /\ UNCHANGED adapter

\* ------------------------------------------------------ specifications
Configure ==
  \/ \E m \in Methods : setNearesetNeighborSearchMethod(m)
  \/ \E k \in Ks : setCorrespondenceRandomness(k)

Assign ==
  \/ \E c \in Handles : setInputSource(c)
  \/ \E c \in Handles : setInputTarget(c)

Register ==
  \/ \E t \in Transforms : computeTransformation(t)
  \/ update_correspondences
  \/ update_mahalanobis
  \/ compute_error
  \/ SolverStep

\* Cloud assignment between reconfigurations, on an accelerator that does
\* not fail.
Init == InitWith("reliable")
Next ==
  \/ Configure
  \/ Assign
Spec == Init /\ [][Next]_vars

\* Assigning, clearing and swapping the two clouds in either search mode.
NextSwap ==
  \/ \E m \in Methods : setNearesetNeighborSearchMethod(m)
  \/ Assign
  \/ swapSourceAndTarget
  \/ clearSource
  \/ clearTarget
SpecSwap == Init /\ [][NextSwap]_vars

\* Registration runs between reconfigurations and assignments.
NextRun ==
  \/ \E m \in Methods : setNearesetNeighborSearchMethod(m)
  \/ \E r \in Resolutions : setResolution(r)
  \/ Assign
  \/ Register
SpecRun == Init /\ [][NextRun]_vars

\* Assignments, swaps and runs on an accelerator that may fail.
InitFault == InitWith("flaky")
NextFault ==
  \/ \E m \in Methods : setNearesetNeighborSearchMethod(m)
  \/ Assign
  \/ swapSourceAndTarget
  \/ Register
SpecFault == InitFault /\ [][NextFault]_vars

\* One call of find_neighbors_parallel_kdtree with any cloud and k, its
\* iterations interleaved in every way.
InitKd ==
  /\ InitAdapter("reliable")
  /\ \E points \in PointSeqs, k \in Ks : kd = KdStart(points, k)
NextKd ==
  \/ \E i \in 0..(MaxPts - 1) : KdTreeSearch(i)
  \/ \E i \in 0..(MaxPts - 1) : KdTreeCopy(i)
  \/ KdTreeReturn
SpecKd == InitKd /\ [][NextKd]_vars

\* Registration runs between changes of the four values that
\* computeTransformation passes on.
NextConfig ==
  \/ \E n \in Iterations : setMaximumIterations(n)
  \/ \E eps \in Epsilons : setRotationEpsilon(eps)
  \/ \E eps \in Epsilons : setTransformationEpsilon(eps)
  \/ \E r \in Resolutions : setResolution(r)
  \/ Register
SpecConfig == Init /\ [][NextConfig]_vars

\* ---------------------------------------------------------------- claims
FnsOf(log) == {log[i].fn : i \in DOMAIN log}
Only(log, fns) == SelectSeq(log, LAMBDA s : s.fn \in fns)
Last(log) == log[Len(log)]
AssignFns == UploadFns \cup NeighborFns \cup CovFns \cup VoxelFns
WorkFns == AssignFns \cup SearchFns
\* The k a neighbor-set step was made for.
StepK(s) == IF s.fn \in {"set_source_neighbors", "set_target_neighbors"}
              THEN s.neighbors.k ELSE s.arg
IsAssign(o) == o.name \in {"setInputSource", "setInputTarget"}
Stored(o) == IF o.name = "setInputSource" THEN input_ ELSE target_

\* C1: setInputSource (setInputTarget) with the handle the adapter already
\* stores as its source (target) runs no step at all, returns normally and
\* changes neither the stored handles nor the backend.
C1_SameCloudIsNoOp ==
  [][(IsAssign(op') /\ op'.arg = Stored(op'))
       => /\ calls' = <<>>
          /\ op'.outcome = "ok"
          /\ UNCHANGED <<input_, target_, vgicp_cuda>>]_vars

C1_Witness ==
  /\ op.name = "setInputSource"
  /\ op.arg = input_
  /\ input_ # NullCloud
  /\ CloudSize(input_) > 0
  /\ vgicp_cuda.src.points = input_
  /\ calls = <<>>

\* C2: a setInputTarget call with another, non-null cloud that returns ran,
\* in this order and once each, the upload of that cloud, one neighbor-set
\* step for k_correspondences_, the target covariance calculation and the
\* target voxel-map build; a setInputSource call ran the first three for the
\* source side and built no voxel map.
C2_Pipeline(o, log) ==
  LET main == Only(log, AssignFns) IN
    IF o.name = "setInputTarget"
      THEN /\ Len(main) = 4
           /\ main[1] = Step("set_target_cloud", o.arg)
           /\ main[2].fn \in {"set_target_neighbors", "find_target_neighbors"}
           /\ StepK(main[2]) = k_correspondences_
           /\ main[3].fn = "calculate_target_covariances"
           /\ main[4].fn = "create_target_voxelmap"
      ELSE /\ Len(main) = 3
           /\ main[1] = Step("set_source_cloud", o.arg)
           /\ main[2].fn \in {"set_source_neighbors", "find_source_neighbors"}
           /\ StepK(main[2]) = k_correspondences_
           /\ main[3].fn = "calculate_source_covariances"

C2_AssignmentOrder ==
  [][(IsAssign(op') /\ op'.arg # Stored(op') /\ op'.outcome = "ok")
       => C2_Pipeline(op', calls')]_vars

C2_Witness ==
  /\ op.name = "setInputTarget"
  /\ op.outcome = "ok"
  /\ Len(calls) = 4
  /\ neighbor_search_method_ = "GPU_BRUTEFORCE"
  /\ vgicp_cuda.voxelmap.cloud = op.arg
  /\ vgicp_cuda.src.covs # NoCovs

\* The voxel map is the one built from the target side's points and
\* covariances at the backend's resolution (none when the side holds none).
VoxelMapCurrent(core) == core.voxelmap = BuildVoxelMap(core.tgt, core.resolution)

C4_SwapExchangesRoles ==
  [][(op'.name = "swapSourceAndTarget" /\ op'.outcome = "ok")
       => /\ FnsOf(calls') \cap (SearchFns \cup NeighborFns \cup CovFns) = {}
          /\ input_' = target_
          /\ target_' = input_
          /\ vgicp_cuda'.src = vgicp_cuda.tgt
          /\ vgicp_cuda'.tgt = vgicp_cuda.src
          /\ (vgicp_cuda.src.points # NullCloud /\ vgicp_cuda.src.covs # NoCovs)
               => /\ vgicp_cuda'.voxelmap.cloud = vgicp_cuda.src.points
                  /\ vgicp_cuda'.voxelmap.covs = vgicp_cuda.src.covs]_vars

C4_Witness ==
  /\ op.name = "swapSourceAndTarget"
  /\ op.outcome = "ok"
  /\ swaps.n = 1
  /\ swaps.input_ \in Clouds /\ swaps.target_ \in Clouds
  /\ swaps.input_ # swaps.target_
  /\ input_ = swaps.target_ /\ target_ = swaps.input_
  /\ vgicp_cuda.tgt.points = target_
  /\ vgicp_cuda.tgt.covs # NoCovs
  /\ vgicp_cuda.voxelmap.cloud = target_

Sides(core) == {core.src, core.tgt}
Handover == op.name = "computeTransformation" /\ op.outcome = "ok"

\* C5: when computeTransformation hands control to the outer solver, the
\* target voxel map the backend holds was built with the resolution that is
\* configured on the adapter.
C5_VoxelMapAtConfiguredResolution ==
  (Handover /\ vgicp_cuda.voxelmap # NoVoxelMap)
    => vgicp_cuda.voxelmap.resolution = voxel_resolution_

\* C6: when computeTransformation hands control to the outer solver, the
\* neighbor sets the backend holds, and those its covariances were computed
\* from, were produced with the configured k and the selected search method.
C6_Current(neighbors) ==
  neighbors # NoNeighbors
    => /\ neighbors.k = k_correspondences_
       /\ neighbors.method = neighbor_search_method_

C6_NeighborsAtConfiguredKAndMethod ==
  Handover
    => \A side \in Sides(vgicp_cuda) :
         /\ C6_Current(side.neighbors)
         /\ C6_Current(side.covs.neighbors)

\* C7: assigning a cloud that has points, but fewer than k, ends in an error,
\* and no neighbor set is handed to the backend and no covariance
\* calculation is asked of it.
C7_TooFewPointsIsAnError ==
  (/\ IsAssign(op)
   /\ calls # <<>>
   /\ op.arg \in Clouds
   /\ 0 < CloudSize(op.arg)
   /\ CloudSize(op.arg) < k_correspondences_)
    => /\ op.outcome = "error"
       /\ FnsOf(calls) \cap
            ({"set_source_neighbors", "set_target_neighbors"} \cup CovFns) = {}

\* C8: setInputSource or setInputTarget with a null or an empty cloud (not
\* the one already stored) ends in an error and runs no step: no upload, no
\* search, no covariance calculation, no voxel-map build.
C8_NullOrEmptyRejectedFirst ==
  [][(/\ IsAssign(op')
      /\ op'.arg # Stored(op')
      /\ (op'.arg = NullCloud \/ CloudSize(op'.arg) = 0))
       => /\ op'.outcome = "error"
          /\ calls' = <<>>]_vars

\* C9: update_correspondences(T), update_mahalanobis(T) and compute_error(T)
\* each forward exactly one call of the same operation with the same T to
\* the backend and change none of the adapter's handles and settings, the
\* backend's points, neighbor sets, covariances, voxel map and settings;
\* compute_error leaves the correspondence set alone as well.
CallbackNames == {"update_correspondences", "update_mahalanobis", "compute_error"}

C9_CallbacksOnlyForward ==
  [][op'.name \in CallbackNames
       => /\ calls' = <<Step(op'.name, solver.T)>>
          /\ op'.arg = solver.T
          /\ UNCHANGED adapter
          /\ vgicp_cuda'.src = vgicp_cuda.src
          /\ vgicp_cuda'.tgt = vgicp_cuda.tgt
          /\ vgicp_cuda'.voxelmap = vgicp_cuda.voxelmap
          /\ vgicp_cuda'.resolution = vgicp_cuda.resolution
          /\ (op'.name = "compute_error"
                => vgicp_cuda'.correspondences = vgicp_cuda.correspondences)]_vars

C9_Witness ==
  /\ op.name = "compute_error"
  /\ op.outcome = "ok"
  /\ solver.iter > 0
  /\ vgicp_cuda.correspondences = op.arg
  /\ vgicp_cuda.mahalanobis = op.arg
  /\ vgicp_cuda.src.covs # NoCovs
  /\ vgicp_cuda.voxelmap # NoVoxelMap

\* C10: an accelerator failure in a backend call ends the operation that
\* made the call in an error; the failed call is the last step the operation
\* ran, so no covariance calculation or voxel-map build follows a failed
\* upload or neighbor step, and the host kd-tree search does not follow (or
\* replace) a failed backend search.
C10_FailurePropagates ==
  [][(accel = "flaky" /\ accel' = "failed")
       => /\ op'.outcome = "error"
          /\ calls' # <<>>
          /\ Last(calls').fn \notin HostFns
          /\ vgicp_cuda' = Run(vgicp_cuda, calls', 1, Len(calls')).core
          /\ Last(calls').fn \in {"find_source_neighbors", "find_target_neighbors"}
               => /\ "find_neighbors_parallel_kdtree" \notin FnsOf(calls')
                  /\ vgicp_cuda'.src.neighbors = vgicp_cuda.src.neighbors
                  /\ vgicp_cuda'.tgt.neighbors = vgicp_cuda.tgt.neighbors
          /\ Last(calls').fn \in (UploadFns \cup NeighborFns)
               => /\ FnsOf(calls') \cap (CovFns \cup VoxelFns) = {}
                  /\ vgicp_cuda'.src.covs = vgicp_cuda.src.covs
                  /\ vgicp_cuda'.tgt.covs = vgicp_cuda.tgt.covs
                  /\ vgicp_cuda'.voxelmap = vgicp_cuda.voxelmap]_vars

C10_Witness ==
  /\ accel = "failed"
  /\ op.name = "setInputTarget"
  /\ op.outcome = "error"
  /\ neighbor_search_method_ = "GPU_BRUTEFORCE"
  /\ Last(calls).fn = "find_target_neighbors"
  /\ CloudSize(op.arg) >= k_correspondences_
  /\ vgicp_cuda.tgt.points = op.arg
  /\ vgicp_cuda.voxelmap.cloud # op.arg

\* The loop run by one thread, iteration after iteration in index order.
CopyAll(neighbors, dest, src) ==
  [x \in 1..Len(neighbors) |->
     IF x - 1 - dest \in 0..(Len(src) - 1) THEN src[x - dest] ELSE neighbors[x]]

RECURSIVE SequentialLoop(_, _, _, _)
SequentialLoop(points, k, i, neighbors) ==
  IF i = Len(points)
    THEN neighbors
    ELSE SequentialLoop(points, k, i + 1,
           CopyAll(neighbors, CopyDest(i, k), nearestKSearch(points, i, k, <<>>)))

\* C11: iteration i of the parallel loop writes only positions i*k ..
\* i*k+k-1 of the shared vector, and whatever the interleaving of the
\* iterations the vector returned is the one the loop run sequentially in
\* index order produces.
C11_IterationsIndependent ==
  /\ \A w \in kd.writes : w.p \in (w.i * kd.k)..(w.i * kd.k + kd.k - 1)
  /\ kd.pc = "returned"
       => kd.neighbors =
            SequentialLoop(kd.points, kd.k, 0, KdStart(kd.points, kd.k).neighbors)

C11_Witness ==
  /\ kd.pc = "returned"
  /\ Len(kd.points) = MaxPts
  /\ kd.k = MaxK
  /\ Cardinality(kd.writes) = MaxPts * MaxK
  /\ \E x, y \in 1..Len(kd.neighbors) : kd.neighbors[x] # kd.neighbors[y]

\* C12: for a cloud of n >= k points the vector returned has exactly n*k
\* entries, positions i*k .. i*k+k-1 hold the k indices the search returned
\* for point i, in the order returned, and every entry is in 0..n-1.
C12_ExactlyKPerPoint ==
  (kd.pc = "returned" /\ Len(kd.points) >= kd.k)
    => /\ Len(kd.neighbors) = Len(kd.points) * kd.k
       /\ \A i \in 0..(Len(kd.points) - 1) :
            /\ Len(kd.its[i + 1].k_indices) = kd.k
            /\ \A j \in 0..(kd.k - 1) :
                 kd.neighbors[i * kd.k + j + 1] = kd.its[i + 1].k_indices[j + 1]
       /\ \A x \in 1..Len(kd.neighbors) :
            kd.neighbors[x] \in 0..(Len(kd.points) - 1)

C12_Witness ==
  /\ kd.pc = "returned"
  /\ Len(kd.points) > kd.k
  /\ kd.k = MaxK
  /\ kd.points[1] # kd.points[Len(kd.points)]
  /\ kd.neighbors[1] = 0
  /\ kd.neighbors[Len(kd.neighbors) - kd.k + 1] = Len(kd.points) - 1

\* C13: a freshly constructed adapter is in CPU_PARALLEL_KDTREE mode, and
\* every assignment that gets past the identity check obtains its neighbor
\* set by the strategy of the mode in effect: in CPU_PARALLEL_KDTREE mode the
\* host kd-tree search runs once, its result for that cloud and k is handed
\* over with set_*_neighbors and the backend search is not called; in
\* GPU_BRUTEFORCE mode find_*_neighbors is called once and the host search
\* does not run.
C13_Strategy(o, log, mode) ==
  LET side == IF o.name = "setInputSource" THEN "source" ELSE "target"
      steps == Only(log, SearchFns \cup NeighborFns)
  IN IF mode = "CPU_PARALLEL_KDTREE"
       THEN /\ Len(steps) = 2
            /\ steps[1].fn = "find_neighbors_parallel_kdtree"
            /\ steps[2].fn = "set_" \o side \o "_neighbors"
            /\ steps[2].neighbors =
                 [cloud |-> o.arg, k |-> k_correspondences_,
                  method |-> "CPU_PARALLEL_KDTREE"]
       ELSE /\ Len(steps) = 1
            /\ steps[1].fn = "find_" \o side \o "_neighbors"

C13_OneStrategyByMode ==
  /\ [](op.name = "FastVGICPCuda"
          => neighbor_search_method_ = "CPU_PARALLEL_KDTREE")
  /\ [][(IsAssign(op') /\ calls' # <<>>)
          => /\ neighbor_search_method_' = neighbor_search_method_
             /\ C13_Strategy(op', calls', neighbor_search_method_)]_vars

C13_Witness ==
  /\ op.name = "setInputSource"
  /\ op.outcome = "ok"
  /\ neighbor_search_method_ = "GPU_BRUTEFORCE"
  /\ "find_source_neighbors" \in FnsOf(calls)
  /\ vgicp_cuda.src.neighbors.method = "GPU_BRUTEFORCE"
  /\ vgicp_cuda.tgt.neighbors.method = "CPU_PARALLEL_KDTREE"
  /\ vgicp_cuda.tgt.neighbors.cloud = target_
  /\ target_ # NullCloud

\* C14: while the adapter stores a non-null source (target) handle, the
\* backend's points, neighbor set and covariances of that side, and for the
\* target the voxel map, were all computed from the cloud the handle refers
\* to.
C14_From(side, cloud) ==
  /\ side.points = cloud
  /\ side.neighbors.cloud = cloud
  /\ side.covs.cloud = cloud
  /\ side.covs.neighbors.cloud = cloud

C14_BackendMatchesHandles ==
  /\ input_ # NullCloud => C14_From(vgicp_cuda.src, input_)
  /\ target_ # NullCloud
       => /\ C14_From(vgicp_cuda.tgt, target_)
          /\ vgicp_cuda.voxelmap.cloud = target_
          /\ vgicp_cuda.voxelmap.covs = vgicp_cuda.tgt.covs

\* C15: a computeTransformation call that starts the solver has passed the
\* adapter's maximum iteration count, rotation epsilon, transformation
\* epsilon and voxel resolution to the backend, and while the solver runs
\* (at each of its callbacks) the backend's four values equal the adapter's.
C15_Passed(fn, value) ==
  \E i \in DOMAIN calls : calls[i] = Step(fn, value)

C15_ConfigurationCopied ==
  /\ Handover
       => /\ Len(calls) = 4
          /\ C15_Passed("set_max_iterations", max_iterations_)
          /\ C15_Passed("set_rotation_epsilon", rotation_epsilon_)
          /\ C15_Passed("set_transformation_epsilon", transformation_epsilon_)
          /\ C15_Passed("set_resolution", voxel_resolution_)
  /\ solver.pc # "idle"
       => /\ vgicp_cuda.max_iterations = max_iterations_
          /\ vgicp_cuda.rotation_epsilon = rotation_epsilon_
          /\ vgicp_cuda.transformation_epsilon = transformation_epsilon_
          /\ vgicp_cuda.resolution = voxel_resolution_

C15_Witness ==
  /\ op.name = "compute_error"
  /\ op.outcome = "ok"
  /\ solver.pc = "solve"
  /\ solver.iter > 0
  /\ voxel_resolution_ = MaxRes
  /\ vgicp_cuda.resolution = MaxRes
  /\ rotation_epsilon_ = 5
  /\ vgicp_cuda.rotation_epsilon = 5
  /\ transformation_epsilon_ = 2
  /\ vgicp_cuda.transformation_epsilon = 2

\* C16: setInputSource calls only source-side backend operations and leaves
\* the target handle and the backend's target points, neighbor set,
\* covariances and voxel map as they were; setInputTarget calls only
\* target-side backend operations and leaves the source handle and the
\* backend's source data as they were.
C16_SidesSeparate ==
  [][/\ op'.name = "setInputSource"
          => /\ FnsOf(calls') \subseteq (SourceFns \cup HostFns)
             /\ target_' = target_
             /\ vgicp_cuda'.tgt = vgicp_cuda.tgt
             /\ vgicp_cuda'.voxelmap = vgicp_cuda.voxelmap
     /\ op'.name = "setInputTarget"
          => /\ FnsOf(calls') \subseteq (TargetFns \cup HostFns)
             /\ input_' = input_
             /\ vgicp_cuda'.src = vgicp_cuda.src]_vars

C16_Witness ==
  /\ op.name = "setInputTarget"
  /\ op.outcome = "ok"
  /\ Len(calls) >= 4
  /\ input_ \in Clouds
  /\ op.arg # input_
  /\ vgicp_cuda.tgt.points = op.arg
  /\ vgicp_cuda.src.points = input_
  /\ vgicp_cuda.src.covs.cloud = input_
  /\ vgicp_cuda.voxelmap.cloud = op.arg

\* C17: clearSource (clearTarget) sets the stored source (target) handle to
\* null, calls nothing on the backend and changes nothing else; a
\* setInputSource (setInputTarget) that follows with the cloud that was
\* stored before the clear is not skipped: it runs, starting with the upload
\* of that cloud, and when it returns it has run the whole pipeline; one that
\* follows with a null handle is skipped as a no-op.
C17_Clear(o, log) ==
  /\ log = <<>>
  /\ o.outcome = "ok"
  /\ IF o.name = "clearSource"
       THEN input_' = NullCloud /\ o.arg = input_ /\ target_' = target_
       ELSE target_' = NullCloud /\ o.arg = target_ /\ input_' = input_
  /\ UNCHANGED <<vgicp_cuda, neighbor_search_method_, k_correspondences_,
                 regularization_method_, voxel_resolution_, max_iterations_,
                 rotation_epsilon_, transformation_epsilon_>>

C17_Follows(clear, set) == op.name = clear /\ op'.name = set

C17_Rerun(o, log) ==
  /\ log # <<>>
  /\ log[1] = Step(IF o.name = "setInputSource"
                     THEN "set_source_cloud" ELSE "set_target_cloud", o.arg)
  /\ o.outcome = "ok" => C2_Pipeline(o, log)

C17_ClearThenAssign ==
  [][/\ op'.name \in {"clearSource", "clearTarget"} => C17_Clear(op', calls')
     /\ (C17_Follows("clearSource", "setInputSource")
           \/ C17_Follows("clearTarget", "setInputTarget"))
          => /\ (op'.arg = op.arg /\ op.arg # NullCloud)
                  => C17_Rerun(op', calls')
             /\ op'.arg = NullCloud
                  => /\ calls' = <<>>
                     /\ op'.outcome = "ok"
                     /\ UNCHANGED <<input_, target_, vgicp_cuda>>]_vars

C17_Witness ==
  /\ op.name = "clearSource"
  /\ op.arg \in Clouds
  /\ CloudSize(op.arg) > 0
  /\ input_ = NullCloud
  /\ calls = <<>>
  /\ vgicp_cuda.src.points = op.arg
  /\ vgicp_cuda.src.covs.cloud = op.arg
  /\ ENABLED setInputSource(op.arg)

====
